---- MODULE Spec2Model ----
(***************************************************************************)
(* Model of the sensor-data loading pipeline of                            *)
(* src/src/data_processing/processor.py (class DataProcessor): record      *)
(* normalization, validation by a thread pool, the validation-error        *)
(* buffer and its flush to the JSON log, the bulk insert and the           *)
(* per-file statistics of process_file_in_batches.                         *)
(*                                                                         *)
(* Python values are modelled as [ty, n]: the runtime type and an integer  *)
(* payload (a number, or the identity of a string / time value).  A dict   *)
(* is a function from keys to values; a raw record keeps its item order    *)
(* as a sequence of [k, v] pairs (dict.items()).                           *)
(***************************************************************************)
EXTENDS Integers, Sequences, FiniteSets, TLC

(***************************************************************************)
(* Sizes.  The program's sizes (2000-row chunks, a flush every 100 errors, *)
(* one worker per CPU core) are scaled down; the structure is unchanged.   *)
(***************************************************************************)
\* Chunks read by one run of process_file_in_batches at most.
MaxChunks == 2
\* Records of a batch handed to process_batch directly (not through a file).
MaxDirectBatch == 2
\* processor.py:39 self.batch_size = BATCH_SIZE (settings.py:27), scaled.
BATCH_SIZE == 2
\* processor.py:87 self.max_workers = os.cpu_count() or 4, scaled.
max_workers == 2
\* processor.py:334 flush when len(self.validation_errors) >= 100, scaled.
FlushThreshold == 2
\* Fields in which a single record differs from a valid one, at most.
MaxChanged == 2

\* settings.py:31 MONGODB_INSERT_BATCH_SIZE and the values the optimisation
\* harness assigns to it (test_comprehensive_optimization.py:61,127), scaled
\* by the same factor as BATCH_SIZE.
InsertBatchSizes == {1, 2}

(***************************************************************************)
(* Python values.                                                          *)
(***************************************************************************)
Str(n) == [ty |-> "str", n |-> n]
Int_(n) == [ty |-> "int", n |-> n]
Flt(n) == [ty |-> "float", n |-> n]
Dt(n) == [ty |-> "datetime", n |-> n]
\* float('nan'): what pandas puts in place of a missing CSV cell.
NaN == [ty |-> "nan", n |-> 0]
None == [ty |-> "none", n |-> 0]

\* isinstance(v, (int, float))
IsNumber(v) == v.ty \in {"int", "float", "nan"}
\* isinstance(v, int)
IsInt(v) == v.ty = "int"
\* The bug of exclusive bounds: lo < float(v) < hi.
BetweenExclusive(v, lo, hi) == v.ty # "nan" /\ lo < v.n /\ v.n < hi

\* lo <= float(v) <= hi  (every comparison with NaN is False)
Between(v, lo, hi) == v.ty # "nan" /\ lo <= v.n /\ v.n <= hi

EmptyDict == [x \in {} |-> None]
Put(d, k, v) == [x \in (DOMAIN d) \cup {k} |-> IF x = k THEN v ELSE d[x]]

(***************************************************************************)
(* Field normalizer: processor.py:53-76 and 467-483.                       *)
(***************************************************************************)
\* The bug of matching the keys as spelled, without str.lower().
LowerOmitted(k) == k

\* str.lower() on the key spellings that occur in the alias table or in the
\* modelled inputs; every other key of the model is already lower case.
Lower(k) ==
  CASE k = "Timestamp" -> "timestamp"
    [] k = "TIME" -> "time"
    [] k = "DATETIME" -> "datetime"
    [] k = "deviceID" -> "deviceid"
    [] k = "DeviceID" -> "deviceid"
    [] k = "DEVICE_ID" -> "device_id"
    [] k = "device_ID" -> "device_id"
    [] k = "Device_Id" -> "device_id"
    [] k = "deviceId" -> "deviceid"
    [] k = "DeviceId" -> "deviceid"
    [] k = "DEVICEID" -> "deviceid"
    [] k = "Temperature" -> "temperature"
    [] k = "TEMP" -> "temp"
    [] k = "Temperature_C" -> "temperature_c"
    [] k = "Temp_C" -> "temp_c"
    [] k = "Humidity" -> "humidity"
    [] k = "HUM" -> "hum"
    [] k = "Pressure" -> "pressure"
    [] k = "PRESSURE" -> "pressure"
    [] k = "Value1" -> "value1"
    [] k = "VALUE1" -> "value1"
    [] k = "Reading1" -> "reading1"
    [] k = "Value2" -> "value2"
    [] k = "VALUE2" -> "value2"
    [] k = "Reading2" -> "reading2"
    [] k = "Value3" -> "value3"
    [] k = "VALUE3" -> "value3"
    [] k = "Reading3" -> "reading3"
    [] k = "Value4" -> "value4"
    [] k = "VALUE4" -> "value4"
    [] k = "Reading4" -> "reading4"
    [] k = "Location" -> "location"
    [] k = "LOCATION" -> "location"
    [] k = "Room" -> "room"
    [] k = "ROOM" -> "room"
    [] k = "TIMESTAMP" -> "timestamp"
    [] k = "DEVICE-ID" -> "device-id"
    [] k = "TEMPERATURE" -> "temperature"
    [] k = "HUMIDITY_PCT" -> "humidity_pct"
    [] k = "Pressure_Value" -> "pressure_value"
    [] OTHER -> k

column_mappings ==
  [timestamp |-> <<"timestamp", "time", "datetime", "date_time", "ts",
                   "Timestamp", "TIME", "DATETIME">>,
   device_id |-> <<"device_id", "deviceid", "device", "id", "deviceID",
                   "DeviceID", "DEVICE_ID", "device_ID", "Device_Id",
                   "DEVICE_ID", "device-id", "device.id", "deviceId",
                   "deviceID", "DeviceId", "DEVICEID", "device_id_number",
                   "device_number">>,
   temperature |-> <<"temperature", "temp", "Temperature", "TEMP",
                     "Temperature_C", "temp_c">>,
   humidity |-> <<"humidity", "hum", "Humidity", "HUM", "humidity_percent",
                  "humidity_pct">>,
   pressure |-> <<"pressure", "Pressure", "PRESSURE", "pressure_value",
                  "pressure_value_hpa">>,
   value1 |-> <<"value1", "Value1", "VALUE1", "reading1", "Reading1">>,
   value2 |-> <<"value2", "Value2", "VALUE2", "reading2", "Reading2">>,
   value3 |-> <<"value3", "Value3", "VALUE3", "reading3", "Reading3">>,
   value4 |-> <<"value4", "Value4", "VALUE4", "reading4", "Reading4">>,
   location |-> <<"location", "Location", "LOCATION", "room", "Room", "ROOM">>]

\* processor.py:470-475: lower-cased variation -> standard name.
reverse_mapping ==
  LET vars(s) == {Lower(column_mappings[s][i]) : i \in 1..Len(column_mappings[s])}
      all == UNION {vars(s) : s \in DOMAIN column_mappings}
  IN [k \in all |-> CHOOSE s \in DOMAIN column_mappings : k \in vars(s)]

\* processor.py:477-481, the loop over data.items() from item i on.
RECURSIVE NormalizeFrom(_, _, _)
NormalizeFrom(items, i, acc) ==
  IF i > Len(items) THEN acc
  ELSE LET key_lower == Lower(items[i].k)
       IN IF key_lower \in DOMAIN reverse_mapping
          THEN NormalizeFrom(items, i + 1,
                             Put(acc, reverse_mapping[key_lower], items[i].v))
          ELSE NormalizeFrom(items, i + 1, acc)

\* processor.py:467-483
normalize_record_fields(data) == NormalizeFrom(data, 1, EmptyDict)

(***************************************************************************)
(* Record validator: processor.py:370-465.  The result is "OK" (return     *)
(* True) or the error_reason handed to _log_validation_error before        *)
(* return False (the f-string without the interpolated type or value).     *)
(***************************************************************************)
required_fields ==
  <<"timestamp", "device_id", "temperature", "humidity", "pressure", "location">>

\* The bug of testing the key only: "field in data".
HasKey(data, f) == f \in DOMAIN data

Has(data, f) == f \in DOMAIN data /\ data[f].ty # "none"

\* processor.py:379-383
MissingIndex(data) ==
  LET bad == {i \in 1..Len(required_fields) : ~Has(data, required_fields[i])}
  IN IF bad = {} THEN 0 ELSE CHOOSE i \in bad : \A j \in bad : i <= j

\* The bug of leaving out the type checks of the optional fields.
OptionalTypeUnchecked(data) == "OK"

\* processor.py:417-427, optional fields in list order.
OptionalTypeFailure(data) ==
  IF Has(data, "light") /\ ~IsInt(data["light"]) THEN "Invalid light type"
  ELSE IF Has(data, "sound") /\ ~IsInt(data["sound"]) THEN "Invalid sound type"
  ELSE IF Has(data, "motion") /\ ~IsInt(data["motion"]) THEN "Invalid motion type"
  ELSE IF Has(data, "battery") /\ ~IsNumber(data["battery"]) THEN "Invalid battery type"
  ELSE "OK"

\* processor.py:429-459
RangeFailure(data) ==
  IF ~Between(data["temperature"], -50, 50) THEN "Temperature out of range"
  ELSE IF ~Between(data["humidity"], 0, 100) THEN "Humidity out of range"
  ELSE IF ~Between(data["pressure"], 800, 1200) THEN "Pressure out of range"
  ELSE IF Has(data, "light") /\ ~(0 <= data["light"].n) THEN "Light out of range"
  ELSE IF Has(data, "sound") /\ ~(0 <= data["sound"].n) THEN "Sound out of range"
  ELSE IF Has(data, "motion") /\ ~Between(data["motion"], 0, 1)
       THEN "Motion out of range"
  ELSE IF Has(data, "battery") /\ ~Between(data["battery"], 0, 100)
       THEN "Battery out of range"
  ELSE "OK"

\* processor.py:370-465
validate_fields(data) ==
  IF MissingIndex(data) # 0
  THEN "Missing or null field: " \o required_fields[MissingIndex(data)]
  ELSE IF data["timestamp"].ty \notin {"str", "datetime"} THEN "Invalid timestamp type"
  ELSE IF data["device_id"].ty # "str" THEN "Invalid device_id type"
  ELSE IF ~IsNumber(data["temperature"]) THEN "Invalid temperature type"
  ELSE IF ~IsNumber(data["humidity"]) THEN "Invalid humidity type"
  ELSE IF ~IsNumber(data["pressure"]) THEN "Invalid pressure type"
  ELSE IF data["location"].ty # "str" THEN "Invalid location type"
  ELSE IF OptionalTypeFailure(data) # "OK" THEN OptionalTypeFailure(data)
  ELSE RangeFailure(data)

(***************************************************************************)
(* Inputs.  A CSV file gives every row the columns of its header; the      *)
(* header must hold a column named exactly "timestamp" (parse_dates,       *)
(* processor.py:596).  process_batch is also called directly with any list *)
(* of dicts (tests/test_processor.py:48-52).                               *)
(***************************************************************************)
CsvRecord(device, temp) ==
  << [k |-> "timestamp", v |-> Dt(1)], [k |-> "DeviceID", v |-> device],
     [k |-> "Temp_C", v |-> temp], [k |-> "humidity", v |-> Flt(50)],
     [k |-> "pressure", v |-> Flt(1013)], [k |-> "location", v |-> Str(2)],
     [k |-> "zzz_unknown", v |-> Int_(7)] >>

\* A good row, a row with temperature 999.0, a row with an empty device cell.
RowValid == CsvRecord(Str(1), Flt(25))
RowHot == CsvRecord(Str(1), Flt(999))
RowNoDevice == CsvRecord(NaN, Flt(25))
CsvRows == {RowValid, RowHot}

\* A dict none of whose keys is in the alias table.
RecUnknown == << [k |-> "zzz_unknown", v |-> Int_(1)], [k |-> "foo", v |-> Str(3)] >>
DirectRecords == {RowValid, RowNoDevice, RecUnknown}

(***************************************************************************)
(* State.                                                                  *)
(***************************************************************************)
Main == 0
Workers == 1..max_workers
Threads == {Main} \cup Workers

VARIABLES
  pc,                 \* where the coordinating thread is
  caller,             \* "run": process_file_in_batches; "direct": process_batch
  batch,              \* records handed to process_batch: <<[row, rec]>>
  batch_no,           \* number of process_batch calls so far
  normalized_batch,   \* processor.py:501
  validation_results, \* one slot per task of executor.map, in input order
  nextTask,           \* head of the executor's work queue
  tpc,                \* per thread: its place in _log_validation_error / flush
  cur,                \* per worker: index of the task it runs
  existing,           \* per thread: existing_errors of its flush (line 347)
  handle,             \* per thread: the file its open temp handle writes to
  validation_errors,  \* self.validation_errors, the in-memory buffer
  files,              \* per path: the content of the file there
  appended,           \* history: every entry ever appended to the buffer
  write_failed,       \* history: a write of the log's temp file raised
  base,               \* history, per thread: the log when its flush started
  crash_at,           \* history: each thread's place when the process died
  batch_stats,        \* processor.py:489
  valid_records,      \* processor.py:487
  inserts,            \* the store's record of insert_many calls
  batch_processed,    \* return value of process_batch
  total_records,      \* processor.py:580
  processed_records,  \* processor.py:581
  file_stats,         \* processor.py:582
  lastShort,          \* the last chunk read was shorter than batch_size
  result,             \* the dict returned at processor.py:646
  vd,                 \* the current call of validate_data (processor.py:275)
  read_rows,          \* history: every row read from the file, in order
  run_error,          \* what failed fatally ("connect", "read"), or "none"
  executors,          \* number of ThreadPoolExecutor objects created (line 511)
  csv_method,         \* CSVProcessor: the read_csv_* method called, or "none"
  csv_input,          \* the file: its number of rows and where reading fails
  csv_pc,             \* where the thread that called the method is
  reader_pc,          \* where the reader thread of read_csv_threaded is
  read_pos,           \* chunks the pd.read_csv iterator has delivered
  held,               \* the chunk in hand (its number of rows), 0 if none
  chunk_queue,        \* csv_processor.py:55
  futures,            \* csv_processor.py:104
  csv_total_records,  \* total_records of the method
  chunks_processed,   \* chunks_processed of the method
  csv_result          \* what the method returned

csvVars == <<csv_method, csv_input, csv_pc, reader_pc, read_pos, held,
             chunk_queue, futures, csv_total_records, chunks_processed,
             csv_result>>
auxVars == <<run_error, executors, csvVars>>
coordVars == <<caller, batch, batch_no, normalized_batch, nextTask, batch_stats,
               valid_records, inserts, batch_processed, total_records,
               processed_records, file_stats, lastShort, result, vd,
               read_rows, auxVars>>
flushVars == <<existing, handle, validation_errors, files, appended,
               write_failed, base, crash_at>>
vars == <<pc, tpc, cur, validation_results, coordVars, flushVars>>
\* Everything but the state of CSVProcessor.
procVars == <<pc, tpc, cur, validation_results, flushVars, caller, batch,
              batch_no, normalized_batch, nextTask, batch_stats, valid_records,
              inserts, batch_processed, total_records, processed_records,
              file_stats, lastShort, result, vd, read_rows, run_error,
              executors>>

(***************************************************************************)
(* Files.  st: "absent", "empty" (zero bytes), "json" (a JSON list of      *)
(* entries) or "garbled" (not parseable); len: its length in entries.      *)
(***************************************************************************)
\* processor.py:50 self.validation_log_path and processor.py:344 temp_path.
validation_log_path == "log"
temp_path == "tmp"
Paths == {validation_log_path, temp_path}
logFile == files[validation_log_path]
tmpFile == files[temp_path]

Absent == [st |-> "absent", entries |-> <<>>, len |-> 0]
EmptyFile == [st |-> "empty", entries |-> <<>>, len |-> 0]
Json(es) == [st |-> "json", entries |-> es, len |-> Len(es)]

\* A write of the list es from offset 0 through a handle whose file was not
\* truncated since: a longer old content keeps its tail.
Overwrite(file, es) ==
  IF file.len > Len(es)
  THEN [st |-> "garbled", entries |-> <<>>, len |-> file.len]
  ELSE Json(es)

\* A write that stopped part-way.
Torn(file) == [st |-> "garbled", entries |-> <<>>, len |-> file.len]

Range(s) == {s[i] : i \in 1..Len(s)}

\* What json.load gives at processor.py:348-353 ([] when the file is absent
\* or raises JSONDecodeError).
LoadExisting(file) == IF file.st = "json" THEN file.entries ELSE <<>>

(***************************************************************************)
(* Pure parts of process_batch and process_file_in_batches.                *)
(***************************************************************************)
\* processor.py:501-506
RECURSIVE NormalizeBatchFrom(_, _)
NormalizeBatchFrom(b, i) ==
  IF i > Len(b) THEN <<>>
  ELSE LET normalized_record == normalize_record_fields(b[i].rec)
       IN (IF DOMAIN normalized_record # {}
           THEN << [row |-> b[i].row, rec |-> normalized_record] >>
           ELSE <<>>) \o NormalizeBatchFrom(b, i + 1)

NormalizeBatch(b) == NormalizeBatchFrom(b, 1)

Metadata == [ty |-> "dict", n |-> 0]

\* processor.py:515-524, the records appended to valid_records.
RECURSIVE CollectFrom(_, _, _)
CollectFrom(nb, results, i) ==
  IF i > Len(nb) THEN <<>>
  ELSE (IF results[i] = "pass"
        THEN << [row |-> nb[i].row, rec |-> Put(nb[i].rec, "metadata", Metadata)] >>
        ELSE <<>>) \o CollectFrom(nb, results, i + 1)

\* The bug of collecting every normalized record, whatever its result.
CollectValidAll(nb, results) ==
  [i \in 1..Len(nb) |-> [row |-> nb[i].row, rec |-> Put(nb[i].rec, "metadata", Metadata)]]

CollectValid(nb, results) == CollectFrom(nb, results, 1)

\* processor.py:539-544: what process_batch returns for an insert_many that
\* acknowledged acked documents and raised PyMongoError or not.
InsertReturn(acked, raised) == IF raised THEN 0 ELSE acked

\* As AddProcessed, but the whole batch is credited.
AddProcessedWholeBatch(processed, returned) == processed + Len(batch)

\* The bug "processed_records = batch_processed" in place of "+=".
AddProcessedAssign(processed, returned) == returned

\* processor.py:626
AddProcessed(processed, returned) == processed + returned

\* The bug of computing the failures before processed_records is updated.
FailedRecordsStale(total, processed) == total - processed_records

\* processor.py:628 and 649
FailedRecords(total, processed) == total - processed

(***************************************************************************)
(* Initial state: a fresh DataProcessor (processor.py:33-87).  The day's   *)
(* log file does not exist yet, or holds what an earlier run persisted.    *)
(***************************************************************************)
\* No call of validate_data is under way.  items: the argument's items;
\* data: the argument dict; first, retry: what the two calls of
\* _validate_fields gave; result: the value returned.
NoCall == [items |-> <<>>, data |-> EmptyDict, first |-> "none",
           retry |-> "none", result |-> "none"]

OldEntry == [row |-> 0, error_reason |-> "Humidity out of range"]

Init ==
  /\ pc = "idle"
  /\ caller = "none"
  /\ batch = <<>>
  /\ batch_no = 0
  /\ normalized_batch = <<>>
  /\ validation_results = <<>>
  /\ nextTask = 1
  /\ tpc = [t \in Threads |-> "idle"]
  /\ cur = [w \in Workers |-> 0]
  /\ existing = [t \in Threads |-> <<>>]
  /\ handle = [t \in Threads |-> "none"]
  /\ validation_errors = <<>>
  /\ \E old \in {Absent, Json(<<OldEntry>>)} :
       files = [p \in Paths |-> IF p = validation_log_path THEN old ELSE Absent]
  /\ appended = {}
  /\ write_failed = FALSE
  /\ base = [t \in Threads |-> Absent]
  /\ crash_at = [t \in Threads |-> "none"]
  /\ batch_stats = [total |-> 0, normalized |-> 0, valid |-> 0, invalid |-> 0]
  /\ valid_records = <<>>
  /\ inserts = <<>>
  /\ batch_processed = 0
  /\ total_records = 0
  /\ processed_records = 0
  /\ file_stats = [total_batches |-> 0, total_records |-> 0,
                   processed_records |-> 0, failed_records |-> 0]
  /\ lastShort = FALSE
  /\ result = [total_records |-> 0, processed_records |-> 0, failed_records |-> 0]
  /\ vd = NoCall
  /\ read_rows = <<>>
  /\ run_error = "none"
  /\ executors = 0
  /\ csv_method = "none"
  /\ csv_input = [rows |-> 0, fail_at |-> 0]
  /\ csv_pc = "idle"
  /\ reader_pc = "idle"
  /\ read_pos = 0
  /\ held = 0
  /\ chunk_queue = <<>>
  /\ futures = <<>>
  /\ csv_total_records = 0
  /\ chunks_processed = 0
  /\ csv_result = [method |-> "none", total_records |-> 0, chunks_processed |-> 0]

(***************************************************************************)
(* The coordinating thread: process_file_in_batches and process_batch.     *)
(***************************************************************************)
\* load_data.py:21 / main.py:48: a run of process_file_in_batches starts.
StartRun ==
  /\ pc = "idle"
  /\ pc' = "read"
  /\ caller' = "run"
  /\ UNCHANGED <<tpc, cur, validation_results, flushVars, vd, read_rows, auxVars, batch, batch_no,
                 normalized_batch, nextTask, batch_stats, valid_records,
                 inserts, batch_processed, total_records, processed_records,
                 file_stats, lastShort, result>>

\* tests/test_processor.py:50: process_batch called with a list of dicts.
CallProcessBatch ==
  /\ pc = "idle"
  /\ \E n \in 1..MaxDirectBatch :
       \E recs \in [1..n -> DirectRecords] :
         batch' = [i \in 1..n |-> [row |-> i, rec |-> recs[i]]]
  /\ pc' = "normalize"
  /\ caller' = "direct"
  /\ UNCHANGED <<tpc, cur, validation_results, flushVars, vd, read_rows, auxVars, batch_no,
                 normalized_batch, nextTask, batch_stats, valid_records,
                 inserts, batch_processed, total_records, processed_records,
                 file_stats, lastShort, result>>

\* processor.py:593-615: the next chunk of the file.  Every chunk but the
\* last holds batch_size rows; no chunk is empty.
ReadChunk ==
  /\ pc = "read"
  /\ ~lastShort
  /\ file_stats.total_batches < MaxChunks
  /\ \E n \in 1..BATCH_SIZE :
       \E rows \in [1..n -> CsvRows] :
         /\ batch' = [i \in 1..n |-> [row |-> total_records + i, rec |-> rows[i]]]
         /\ total_records' = total_records + n
         /\ file_stats' = [file_stats EXCEPT !.total_records = total_records + n,
                                             !.total_batches = @ + 1]
         /\ lastShort' = (n < BATCH_SIZE)
         /\ read_rows' = read_rows \o [i \in 1..n |-> rows[i]]
  /\ pc' = "normalize"
  /\ UNCHANGED <<tpc, cur, validation_results, flushVars, vd, auxVars, caller, batch_no,
                 normalized_batch, nextTask, batch_stats, valid_records,
                 inserts, batch_processed, processed_records, result>>

\* processor.py:487-512: normalize the batch and hand one validation task per
\* normalized record to the executor.
Normalize ==
  /\ pc = "normalize"
  /\ normalized_batch' = NormalizeBatch(batch)
  /\ batch_stats' = [total |-> Len(batch), normalized |-> Len(normalized_batch'),
                     valid |-> 0, invalid |-> 0]
  /\ valid_records' = <<>>
  /\ validation_results' = [i \in 1..Len(normalized_batch') |-> "none"]
  /\ nextTask' = 1
  /\ batch_no' = batch_no + 1
  /\ executors' = executors + 1
  /\ pc' = "validate"
  /\ UNCHANGED <<tpc, cur, flushVars, vd, read_rows, run_error, csvVars, caller, batch, inserts,
                 batch_processed, total_records, processed_records,
                 file_stats, lastShort, result>>

\* As ExecutorShutDown, but the pool is left without waiting for the
\* running tasks (shutdown(wait=False)).
ExecutorNotAwaited == nextTask > Len(normalized_batch)

\* processor.py:511-512: list(executor.map(...)) has every result and the
\* with block has joined the pool threads.
ExecutorShutDown ==
  /\ nextTask > Len(normalized_batch)
  /\ \A w \in Workers : tpc[w] = "idle"

\* processor.py:511-534: the executor has shut down (every task ran, every
\* worker is back); zip the results with the records.
Collect ==
  /\ pc = "validate"
  /\ ExecutorShutDown
  /\ valid_records' = CollectValid(normalized_batch, validation_results)
  /\ batch_stats' = [batch_stats EXCEPT
       !.valid = Cardinality({i \in 1..Len(normalized_batch) :
                                validation_results[i] = "pass"}),
       !.invalid = Cardinality({i \in 1..Len(normalized_batch) :
                                  validation_results[i] # "pass"})]
  /\ pc' = "insert"
  /\ UNCHANGED <<tpc, cur, validation_results, flushVars, vd, read_rows, auxVars, caller, batch,
                 batch_no, normalized_batch, nextTask, inserts,
                 batch_processed, total_records, processed_records,
                 file_stats, lastShort, result>>

\* As AfterBatch, but the error of a failed insert_many propagates out of
\* process_batch and process_file_in_batches re-raises it (line 652-654).
AfterBatchReraising ==
  IF caller = "run"
  THEN IF valid_records # <<>> /\ batch_processed' = 0 THEN "aborted"
       ELSE "aggregate"
  ELSE "returned"

AfterBatch == IF caller = "run" THEN "aggregate" ELSE "returned"

\* processor.py:536-545: one insert_many(valid_records, ordered=False).  It
\* returns with every document acknowledged, or raises PyMongoError
\* (BulkWriteError, AutoReconnect, ...) after the store acknowledged acked
\* of them.
Insert ==
  /\ pc = "insert"
  /\ IF valid_records # <<>>
     THEN \E raised \in BOOLEAN :
            \E acked \in 0..Len(valid_records) :
              /\ ~raised => acked = Len(valid_records)
              /\ inserts' = Append(inserts,
                   [batch |-> batch_no, docs |-> valid_records,
                    acked |-> acked, raised |-> raised,
                    returned |-> InsertReturn(acked, raised)])
              /\ batch_processed' = InsertReturn(acked, raised)
     ELSE /\ batch_processed' = 0
          /\ UNCHANGED inserts
  /\ pc' = AfterBatch
  /\ UNCHANGED <<tpc, cur, validation_results, flushVars, vd, read_rows, auxVars, caller, batch,
                 batch_no, normalized_batch, nextTask, batch_stats,
                 valid_records, total_records, processed_records, file_stats,
                 lastShort, result>>

\* processor.py:625-628
Aggregate ==
  /\ pc = "aggregate"
  /\ processed_records' = AddProcessed(processed_records, batch_processed)
  /\ file_stats' = [file_stats EXCEPT
       !.processed_records = processed_records',
       !.failed_records = FailedRecords(total_records, processed_records')]
  /\ pc' = "read"
  /\ UNCHANGED <<tpc, cur, validation_results, flushVars, vd, read_rows, auxVars, caller, batch,
                 batch_no, normalized_batch, nextTask, batch_stats,
                 valid_records, inserts, batch_processed, total_records,
                 lastShort, result>>

\* processor.py:634-650: the file is exhausted; return the statistics.
Complete ==
  /\ pc = "read"
  /\ file_stats.total_batches >= 1
  /\ result' = [total_records |-> total_records,
                processed_records |-> processed_records,
                failed_records |-> FailedRecords(total_records, processed_records)]
  /\ pc' = "done"
  /\ UNCHANGED <<tpc, cur, validation_results, flushVars, vd, read_rows, auxVars, caller, batch,
                 batch_no, normalized_batch, nextTask, batch_stats,
                 valid_records, inserts, batch_processed, total_records,
                 processed_records, file_stats, lastShort>>

\* processor.py:656-665 (load_data.py:33): close() flushes what is buffered.
Close ==
  /\ pc \in {"done", "returned", "vd_returned", "raised"}
  /\ IF validation_errors # <<>>
     THEN /\ tpc' = [tpc EXCEPT ![Main] = "flush_enter"]
          /\ pc' = "closing"
     ELSE /\ pc' = "closed"
          /\ UNCHANGED tpc
  /\ UNCHANGED <<cur, validation_results, flushVars, coordVars>>

(***************************************************************************)
(* Threads in _validate_fields, _log_validation_error and                  *)
(* _flush_validation_log.  A step is what a thread does between two        *)
(* accesses to shared state (the buffer, the two files).                   *)
(***************************************************************************)
\* The thread leaves _log_validation_error: a worker returns False from
\* _validate_fields (its task's result); the calling thread is back in
\* validate_data (line 280 or 284), or close() returns.
Finish(t) ==
  /\ tpc' = [tpc EXCEPT ![t] = "idle"]
  /\ IF t = Main
     THEN /\ pc' = CASE pc = "vd_first" -> "vd_retry"
                      [] pc = "vd_second" -> "vd_returned"
                      [] OTHER -> "closed"
          /\ UNCHANGED validation_results
     ELSE /\ validation_results' = [validation_results EXCEPT ![cur[t]] = "fail"]
          /\ UNCHANGED pc

Goto(t, place) ==
  /\ tpc' = [tpc EXCEPT ![t] = place]
  /\ UNCHANGED <<pc, validation_results>>

ErrorEntry(row, reason) == [row |-> row, error_reason |-> reason]

\* processor.py:512 and 370-465, 294-323: a pool thread takes the next task,
\* validates the record and, if it fails, appends the error entry.
WorkerValidate(w) ==
  /\ pc = "validate"
  /\ tpc[w] = "idle"
  /\ nextTask <= Len(normalized_batch)
  /\ nextTask' = nextTask + 1
  /\ cur' = [cur EXCEPT ![w] = nextTask]
  /\ LET record == normalized_batch[nextTask]
         reason == validate_fields(record.rec)
     IN IF reason = "OK"
        THEN /\ validation_results' = [validation_results EXCEPT ![nextTask] = "pass"]
             /\ UNCHANGED <<tpc, validation_errors, appended>>
        ELSE /\ validation_errors' =
                  Append(validation_errors, ErrorEntry(record.row, reason))
             /\ appended' = appended \cup {ErrorEntry(record.row, reason)}
             /\ tpc' = [tpc EXCEPT ![w] = "check"]
             /\ UNCHANGED validation_results
  /\ UNCHANGED <<pc, existing, handle, files, write_failed, base, crash_at,
                 caller, batch, batch_no, normalized_batch, batch_stats,
                 valid_records, inserts, batch_processed, total_records,
                 processed_records, file_stats, lastShort, result, vd,
                 read_rows, auxVars>>

\* processor.py:334
LogCheck(t) ==
  /\ tpc[t] = "check"
  /\ IF Len(validation_errors) >= FlushThreshold
     THEN Goto(t, "flush_enter")
     ELSE Finish(t)
  /\ UNCHANGED <<cur, flushVars, coordVars>>

\* processor.py:339-340
FlushEnter(t) ==
  /\ tpc[t] = "flush_enter"
  /\ IF validation_errors = <<>>
     THEN Finish(t) /\ UNCHANGED base
     ELSE Goto(t, "flush_read") /\ base' = [base EXCEPT ![t] = logFile]
  /\ UNCHANGED <<cur, existing, handle, validation_errors, files, appended,
                 write_failed, crash_at, coordVars>>

\* processor.py:346-353
FlushRead(t) ==
  /\ tpc[t] = "flush_read"
  /\ existing' = [existing EXCEPT ![t] = LoadExisting(logFile)]
  /\ Goto(t, "flush_open")
  /\ UNCHANGED <<cur, handle, validation_errors, files, appended,
                 write_failed, base, crash_at, coordVars>>

\* processor.py:356: open(temp_path, 'w') creates the file or truncates it.
FlushOpen(t) ==
  /\ tpc[t] = "flush_open"
  /\ files' = [files EXCEPT ![temp_path] = EmptyFile]
  /\ handle' = [handle EXCEPT ![t] = temp_path]
  /\ Goto(t, "flush_dump")
  /\ UNCHANGED <<cur, existing, validation_errors, appended, write_failed,
                 base, crash_at, coordVars>>

\* processor.py:357: json.dump(existing_errors + self.validation_errors, f)
\* and the close of f, into the file the handle was opened on (which a
\* rename by another thread may have moved or unlinked since).
FlushDump(t) ==
  /\ tpc[t] = "flush_dump"
  /\ LET data == existing[t] \o validation_errors
     IN files' = [p \in Paths |->
                    IF handle[t] = p THEN Overwrite(files[p], data) ELSE files[p]]
  /\ handle' = [handle EXCEPT ![t] = "none"]
  /\ Goto(t, "flush_rename")
  /\ UNCHANGED <<cur, existing, validation_errors, appended, write_failed,
                 base, crash_at, coordVars>>

\* processor.py:356-357 and 365-368: the write raises (OSError, or TypeError
\* for a value json cannot encode); the file is left part-written, the
\* exception is caught and the buffer is kept.
FlushDumpFail(t) ==
  /\ tpc[t] = "flush_dump"
  /\ files' = [p \in Paths |-> IF handle[t] = p THEN Torn(files[p]) ELSE files[p]]
  /\ handle' = [handle EXCEPT ![t] = "none"]
  /\ write_failed' = TRUE
  /\ Finish(t)
  /\ UNCHANGED <<cur, existing, validation_errors, appended, base, crash_at,
                 coordVars>>

\* processor.py:360: temp_path.replace(validation_log_path).  The file keeps
\* the handles opened on it; FileNotFoundError (the temp file was renamed
\* away by another thread) is caught at 365-368.
FlushRename(t) ==
  /\ tpc[t] = "flush_rename"
  /\ IF tmpFile.st # "absent"
     THEN /\ files' = [p \in Paths |->
                         IF p = validation_log_path THEN files[temp_path]
                         ELSE IF p = temp_path THEN Absent ELSE files[p]]
          /\ handle' = [u \in Threads |->
                          IF handle[u] = temp_path THEN validation_log_path
                          ELSE IF handle[u] = validation_log_path THEN "orphan"
                          ELSE handle[u]]
          /\ Goto(t, "flush_clear")
     ELSE /\ Finish(t)
          /\ UNCHANGED <<files, handle>>
  /\ UNCHANGED <<cur, existing, validation_errors, appended, write_failed,
                 base, crash_at, coordVars>>

\* processor.py:363
FlushClear(t) ==
  /\ tpc[t] = "flush_clear"
  /\ validation_errors' = <<>>
  /\ Finish(t)
  /\ UNCHANGED <<cur, existing, handle, files, appended, write_failed, base,
                 crash_at, coordVars>>

LogStep(t) ==
  \/ LogCheck(t)
  \/ FlushEnter(t)
  \/ FlushRead(t)
  \/ FlushOpen(t)
  \/ FlushDump(t)
  \/ FlushDumpFail(t)
  \/ FlushRename(t)
  \/ FlushClear(t)

Next ==
  \/ StartRun
  \/ CallProcessBatch
  \/ ReadChunk
  \/ Normalize
  \/ \E w \in Workers : WorkerValidate(w)
  \/ \E t \in Threads : LogStep(t)
  \/ Collect
  \/ Insert
  \/ Aggregate
  \/ Complete
  \/ Close

Spec == Init /\ [][Next]_vars

\* The steps of the coordinating thread inside a run or a process_batch call.
Coordinator ==
  ReadChunk \/ Normalize \/ Collect \/ Insert \/ Aggregate \/ Complete

\* Scheduling: the interpreter keeps running the coordinating thread, which
\* blocks only in the executor's shutdown (line 511-512) until the workers
\* are back; every pool thread that can take a task or continue its call
\* of _log_validation_error is eventually scheduled.
RunFairness ==
  /\ WF_vars(Coordinator)
  /\ \A w \in Workers : WF_vars(WorkerValidate(w))
  /\ \A t \in Threads : WF_vars(LogStep(t))

SpecLive == Init /\ [][Next]_vars /\ RunFairness

(***************************************************************************)
(* The process is killed (signal, out of memory, power).  Memory is gone,  *)
(* the files stay as they are; a write that was under way (a thread inside *)
(* json.dump, line 357) may have reached the file in part.                 *)
(***************************************************************************)
NoThread == max_workers + 1

Crash ==
  /\ pc # "crashed"
  /\ pc' = "crashed"
  /\ crash_at' = tpc
  /\ tpc' = [t \in Threads |-> "dead"]
  /\ \E w \in {t \in Threads : tpc[t] = "flush_dump" /\ handle[t] \in Paths}
              \cup {NoThread} :
       files' = [p \in Paths |->
                   IF w # NoThread /\ handle[w] = p THEN Torn(files[p])
                   ELSE files[p]]
  /\ UNCHANGED <<cur, validation_results, existing, handle, validation_errors,
                 appended, write_failed, base, coordVars>>

NextCrash == Next \/ Crash

SpecCrash == Init /\ [][NextCrash]_vars

(***************************************************************************)
(* Fatal errors of a load: load_data.py:12-33.  The store cannot be        *)
(* reached (connect_to_mongodb, processor.py:89-196) or the input cannot   *)
(* be read (pd.read_csv, processor.py:593-599).  run_error records what    *)
(* went wrong; pc = "raised" is the exception leaving the run.             *)
(***************************************************************************)
\* As Reraises, but the handler logs the error and carries on.
Swallows == FALSE

\* processor.py:194-196, 652-654 and load_data.py:29-31: each handler logs
\* the error and re-raises it.
Reraises == TRUE

NoResult == [total_records |-> 0, processed_records |-> 0, failed_records |-> 0]

\* processor.py:89-196 called at load_data.py:18: MongoClient or the first
\* create_index raises PyMongoError.
ConnectFails ==
  /\ pc = "idle"
  /\ run_error' = "connect"
  /\ IF Reraises
     THEN pc' = "raised" /\ caller' = "load"
     ELSE pc' = "read" /\ caller' = "run"
  /\ UNCHANGED <<tpc, cur, validation_results, flushVars, vd, read_rows, executors, csvVars, batch,
                 batch_no, normalized_batch, nextTask, batch_stats,
                 valid_records, inserts, batch_processed, total_records,
                 processed_records, file_stats, lastShort, result>>

\* processor.py:593-599: pd.read_csv or the iteration over its chunks raises
\* (file missing, unreadable, malformed), before the first chunk or after
\* some chunks were processed; line 652-654 handles it.
ReadFails ==
  /\ pc = "read"
  /\ run_error' = "read"
  /\ IF Reraises
     THEN pc' = "raised" /\ UNCHANGED result
     ELSE /\ pc' = "done"
          /\ result' = [total_records |-> total_records,
                        processed_records |-> processed_records,
                        failed_records |->
                          FailedRecords(total_records, processed_records)]
  /\ UNCHANGED <<tpc, cur, validation_results, flushVars, vd, read_rows, executors, csvVars, caller,
                 batch, batch_no, normalized_batch, nextTask, batch_stats,
                 valid_records, inserts, batch_processed, total_records,
                 processed_records, file_stats, lastShort>>

NextLoad == Next \/ ConnectFails \/ ReadFails

SpecLoad == Init /\ [][NextLoad]_vars

(***************************************************************************)
(* Single records: validate_data (processor.py:275-292) and process_batch  *)
(* of one record, over records that differ from a valid one in the value   *)
(* or the presence of up to MaxChanged fields, with canonical keys or with *)
(* keys spelled as aliases.                                                *)
(***************************************************************************)
Fields ==
  <<"timestamp", "device_id", "temperature", "humidity", "pressure",
    "location", "light", "sound", "motion", "battery", "value1", "zzz_unknown">>

\* The key is not in the record.
Missing == [ty |-> "missing", n |-> 0]

\* A record every rule accepts: the six required fields, no other key.
BaseValues ==
  <<Dt(1), Str(1), Flt(25), Flt(50), Flt(1013), Str(2),
    Missing, Missing, Missing, Missing, Missing, Missing>>

\* Other values of each field: absent, null, of another type, on and beyond
\* the bounds of processor.py:430-456.  Str(9) is the text "not-a-date".
OtherValues ==
  << {Missing, None, Int_(123), Str(9)},
     {Missing, None, Int_(456), NaN},
     {Missing, None, Str(4), NaN, Flt(-51), Flt(-50), Flt(50), Int_(51), Flt(999)},
     {None, Str(5), Flt(0), Flt(100), Flt(101), Int_(-1)},
     {Missing, Str(6), Int_(800), Flt(1200), Flt(799), Flt(1201)},
     {Missing, None, Int_(7)},
     {None, Int_(0), Int_(-1), Flt(1), Str(8)},
     {Int_(5), Int_(-1), Str(8)},
     {None, Int_(0), Int_(1), Int_(2), Flt(1)},
     {Flt(100), Int_(0), Flt(101), Str(8), NaN},
     {Flt(3)},
     {Int_(7)} >>

\* The value of every field after changing up to k fields of BaseValues.
RECURSIVE Vary(_)
Vary(k) ==
  IF k = 0 THEN {BaseValues}
  ELSE Vary(k - 1) \cup
       {[c EXCEPT ![i] = v] : c \in Vary(k - 1),
                              <<i, v>> \in UNION {{i} \X OtherValues[i] :
                                                  i \in 1..Len(Fields)}}

\* How the keys are spelled: the canonical names, aliases of the table
\* (processor.py:53-76), or upper-case spellings the table does not list.
Styles == {"canonical", "alias", "upper"}

Spelling(style, f) ==
  CASE style = "alias" /\ f = "timestamp" -> "Timestamp"
    [] style = "alias" /\ f = "device_id" -> "DeviceID"
    [] style = "alias" /\ f = "temperature" -> "Temp_C"
    [] style = "alias" /\ f = "humidity" -> "HUM"
    [] style = "alias" /\ f = "pressure" -> "pressure_value_hpa"
    [] style = "alias" /\ f = "location" -> "Room"
    [] style = "alias" /\ f = "value1" -> "Reading1"
    [] style = "upper" /\ f = "timestamp" -> "TIMESTAMP"
    [] style = "upper" /\ f = "device_id" -> "DEVICE-ID"
    [] style = "upper" /\ f = "temperature" -> "TEMPERATURE"
    [] style = "upper" /\ f = "humidity" -> "HUMIDITY_PCT"
    [] style = "upper" /\ f = "pressure" -> "Pressure_Value"
    [] style = "upper" /\ f = "location" -> "LOCATION"
    [] style = "upper" /\ f = "value1" -> "VALUE1"
    [] OTHER -> f

\* dict.items() of the record with values c and keys spelled in style.
ItemsOf(c, style) ==
  SelectSeq([i \in 1..Len(Fields) |-> [k |-> Spelling(style, Fields[i]), v |-> c[i]]],
            LAMBDA item : item.v # Missing)

RecordInputs == {ItemsOf(c, style) : c \in Vary(MaxChanged), style \in Styles}

\* The dict whose items() are items (keys are distinct).
DictOf(items) ==
  [k \in {items[i].k : i \in 1..Len(items)} |->
     (CHOOSE item \in Range(items) : item.k = k).v]

\* As Update, but the original dict is left as it was.
UpdateOmitted(d, e) == d

\* dict.update (processor.py:286)
Update(d, e) == [k \in (DOMAIN d) \cup (DOMAIN e) |-> IF k \in DOMAIN e THEN e[k] ELSE d[k]]

\* tests/test_processor.py:50: process_batch called with a list of one dict.
ProcessRecord ==
  /\ pc = "idle"
  /\ \E rec \in RecordInputs : batch' = << [row |-> 1, rec |-> rec] >>
  /\ pc' = "normalize"
  /\ caller' = "direct"
  /\ UNCHANGED <<tpc, cur, validation_results, flushVars, vd, read_rows, auxVars, batch_no,
                 normalized_batch, nextTask, batch_stats, valid_records,
                 inserts, batch_processed, total_records, processed_records,
                 file_stats, lastShort, result>>

\* processor.py:279-280: validate_data calls _validate_fields on the dict as
\* given; a failure appends its entry (line 323) before anything else.
ValidateData ==
  /\ pc = "idle"
  /\ \E rec \in RecordInputs \cup {RecUnknown} :
       LET data == DictOf(rec)
           reason == validate_fields(data)
           call == [items |-> rec, data |-> data, first |-> reason,
                    retry |-> "none", result |-> "none"]
       IN IF reason = "OK"
          THEN /\ vd' = [call EXCEPT !.result = "True"]
               /\ pc' = "vd_returned"
               /\ UNCHANGED <<tpc, validation_errors, appended>>
          ELSE /\ vd' = call
               /\ validation_errors' = Append(validation_errors, ErrorEntry(1, reason))
               /\ appended' = appended \cup {ErrorEntry(1, reason)}
               /\ tpc' = [tpc EXCEPT ![Main] = "check"]
               /\ pc' = "vd_first"
  /\ UNCHANGED <<cur, validation_results, existing, handle, files,
                 write_failed, base, crash_at, caller, batch, batch_no,
                 normalized_batch, nextTask, batch_stats, valid_records,
                 inserts, batch_processed, total_records, processed_records,
                 file_stats, lastShort, result, read_rows, auxVars>>

\* processor.py:283-289: the first call returned False; normalize the field
\* names and validate again.
ValidateDataRetry ==
  /\ pc = "vd_retry"
  /\ LET normalized_data == normalize_record_fields(vd.items)
         reason == validate_fields(normalized_data)
     IN IF DOMAIN normalized_data = {}
        THEN /\ vd' = [vd EXCEPT !.result = "False"]
             /\ pc' = "vd_returned"
             /\ UNCHANGED <<tpc, validation_errors, appended>>
        ELSE IF reason = "OK"
        THEN /\ vd' = [vd EXCEPT !.data = Update(vd.data, normalized_data),
                                 !.retry = "OK", !.result = "True"]
             /\ pc' = "vd_returned"
             /\ UNCHANGED <<tpc, validation_errors, appended>>
        ELSE /\ vd' = [vd EXCEPT !.retry = reason, !.result = "False"]
             /\ validation_errors' = Append(validation_errors, ErrorEntry(1, reason))
             /\ appended' = appended \cup {ErrorEntry(1, reason)}
             /\ tpc' = [tpc EXCEPT ![Main] = "check"]
             /\ pc' = "vd_second"
  /\ UNCHANGED <<cur, validation_results, existing, handle, files,
                 write_failed, base, crash_at, caller, batch, batch_no,
                 normalized_batch, nextTask, batch_stats, valid_records,
                 inserts, batch_processed, total_records, processed_records,
                 file_stats, lastShort, result, read_rows, auxVars>>

NextRecord ==
  \/ ProcessRecord
  \/ Normalize
  \/ \E w \in Workers : WorkerValidate(w)
  \/ \E t \in Threads : LogStep(t)
  \/ Collect
  \/ Insert
  \/ ValidateData
  \/ ValidateDataRetry
  \/ Close

SpecRecord == Init /\ [][NextRecord]_vars

(***************************************************************************)
(* Properties.                                                             *)
(***************************************************************************)
\* Places of process_file_in_batches where every chunk read so far has been
\* aggregated (lines 626-628 ran for it).
AggregatedPcs == {"read", "done", "closing", "closed"}
ReturnedPcs == {"done", "closing", "closed"}

\* Sum of the acknowledged counts of the first upto inserts of ops.
RECURSIVE SumAcked(_, _)
SumAcked(ops, upto) ==
  IF upto = 0 THEN 0
  ELSE SumAcked(ops, upto - 1) + ops[upto].acked

\* The same sum over the inserts that did not raise.
RECURSIVE SumAckedSuccessful(_, _)
SumAckedSuccessful(ops, upto) ==
  IF upto = 0 THEN 0
  ELSE SumAckedSuccessful(ops, upto - 1)
       + (IF ops[upto].raised THEN 0 ELSE ops[upto].acked)

\* The inserts issued by the current process_batch call, in order.
OpsOfBatch == SelectSeq(inserts, LAMBDA op : op.batch = batch_no)

\* A submitted document without the metadata process_batch attached to it.
Strip(d) ==
  [row |-> d.row, rec |-> [k \in (DOMAIN d.rec) \ {"metadata"} |-> d.rec[k]]]

\* What the Error Collector holds: the buffer and the persisted log.
Collected == Range(validation_errors) \cup Range(LoadExisting(logFile))

Quiescent == \A t \in Threads : tpc[t] = "idle"

\* C1: in a run of process_file_in_batches, after every aggregated chunk and
\* at completion, failed_records = total_records - processed_records, in
\* file_stats and in the returned statistics, whatever the mix of valid
\* records, invalid records and failed inserts.
C1_FailedIsTotalMinusProcessed ==
  caller = "run" =>
    /\ pc \in AggregatedPcs =>
         /\ file_stats.total_records = total_records
         /\ file_stats.processed_records = processed_records
         /\ file_stats.failed_records =
              file_stats.total_records - file_stats.processed_records
    /\ pc \in ReturnedPcs =>
         /\ result.total_records = total_records
         /\ result.processed_records = processed_records
         /\ result.failed_records = result.total_records - result.processed_records

\* A completed two-chunk run with invalid records, a failed insert, and both
\* processed and failed records.
C1_Witness ==
  /\ caller = "run" /\ pc = "done"
  /\ file_stats.total_batches = 2
  /\ appended # {}
  /\ \E i \in 1..Len(inserts) : inserts[i].raised
  /\ result.processed_records > 0
  /\ result.failed_records > 0
  /\ file_stats.failed_records = result.failed_records

\* C2: the documents process_batch hands to insert_many are exactly the
\* normalized records whose validation returned pass: none that failed, all
\* that passed, each once; with none passed no insert is issued.
C2_SubmittedIsExactlyPassed ==
  /\ \A i \in 1..Len(inserts) : \A d \in Range(inserts[i].docs) :
       validate_fields(Strip(d).rec) = "OK"
  /\ pc \in {"aggregate", "returned"} =>
       LET passed == {i \in 1..Len(normalized_batch) :
                        validate_fields(normalized_batch[i].rec) = "OK"}
       IN /\ passed = {i \in 1..Len(normalized_batch) : validation_results[i] = "pass"}
          /\ IF passed = {}
             THEN OpsOfBatch = <<>>
             ELSE /\ Len(OpsOfBatch) = 1
                  /\ Len(OpsOfBatch[1].docs) = Cardinality(passed)
                  /\ {Strip(d) : d \in Range(OpsOfBatch[1].docs)} =
                       {normalized_batch[i] : i \in passed}

\* A batch with a record that passed and one that failed has been inserted.
C2_Witness ==
  /\ pc \in {"aggregate", "returned"}
  /\ \E i, j \in 1..Len(normalized_batch) :
       validation_results[i] = "pass" /\ validation_results[j] = "fail"
  /\ Len(OpsOfBatch) = 1

\* C3: for every batch, once the results are collected, each record is
\* counted in exactly one outcome (normalized = valid + invalid, total =
\* valid + invalid + (total - normalized)) and every record counted invalid
\* has an entry in the Error Collector (buffer or persisted log).  Runs in
\* which a write of the log failed are left aside.
C3_EveryRecordOneOutcome ==
  (pc = "insert" /\ ~write_failed) =>
    /\ batch_stats.total = Len(batch)
    /\ batch_stats.normalized = batch_stats.valid + batch_stats.invalid
    /\ batch_stats.total = batch_stats.valid + batch_stats.invalid
                           + (batch_stats.total - batch_stats.normalized)
    /\ \A i \in 1..Len(normalized_batch) :
         validation_results[i] # "pass" =>
           \E e \in Collected : e.row = normalized_batch[i].row

\* The counting half of C3, with "an entry was appended for every record
\* counted invalid" in place of "the Error Collector still holds one".
C3_CountsOnly ==
  pc = "insert" =>
    /\ batch_stats.total = Len(batch)
    /\ batch_stats.normalized = batch_stats.valid + batch_stats.invalid
    /\ batch_stats.valid = Len(valid_records)
    /\ \A i \in 1..Len(normalized_batch) :
         validation_results[i] # "pass" =>
           \E e \in appended : e.row = normalized_batch[i].row

\* C4: a raw record none of whose keys is in the alias table is not passed
\* to validation, and an entry of kind normalization_failed is appended to
\* the Error Collector for it.
C4_NormalizationFailureLogged ==
  pc \in {"validate", "insert", "aggregate", "returned"} =>
    \A i \in 1..Len(batch) :
      DOMAIN normalize_record_fields(batch[i].rec) = {} =>
        /\ \A j \in 1..Len(normalized_batch) : normalized_batch[j].row # batch[i].row
        /\ \E e \in appended :
             e.row = batch[i].row /\ e.error_reason = "normalization_failed"

\* C5: an insert that acknowledged k documents and raised for the others is
\* credited k, so processed_records is the sum of all acknowledged counts.
C5_PartialSuccessCredited ==
  /\ \A i \in 1..Len(inserts) :
       inserts[i].raised => inserts[i].returned = inserts[i].acked
  /\ (caller = "run" /\ pc \in AggregatedPcs) =>
       processed_records = SumAcked(inserts, Len(inserts))

\* C6: an insert for which the store raised is counted as zero inserted and
\* has a store-error entry in the Error Collector (the run goes on: Insert
\* always hands over to the aggregation).
C6_StoreErrorRecorded ==
  \A i \in 1..Len(inserts) :
    inserts[i].raised =>
      /\ inserts[i].returned = 0
      /\ \E e \in appended : e.error_reason = "Failed to insert records"

\* C7: a failed insert takes nothing from the other inserts of the run:
\* every insert that did not fail is credited its acknowledged count, and
\* processed_records is the sum of those counts after every aggregated chunk
\* and in the returned statistics.
C7_ProcessedIsSumOfSuccessfulInserts ==
  /\ \A i \in 1..Len(inserts) :
       ~inserts[i].raised =>
         /\ inserts[i].returned = inserts[i].acked
         /\ inserts[i].acked = Len(inserts[i].docs)
  /\ (caller = "run" /\ pc \in AggregatedPcs) =>
       processed_records = SumAckedSuccessful(inserts, Len(inserts))
  /\ (caller = "run" /\ pc \in ReturnedPcs) =>
       result.processed_records = SumAckedSuccessful(inserts, Len(inserts))

\* A completed run whose first insert failed after acknowledging a document
\* and whose second insert succeeded.
C7_Witness ==
  /\ caller = "run" /\ pc = "done"
  /\ Len(inserts) = 2
  /\ inserts[1].raised /\ inserts[1].acked > 0
  /\ ~inserts[2].raised
  /\ result.processed_records = inserts[2].acked
  /\ inserts[2].acked = BATCH_SIZE

\* Ceiling of n / s.
Ceil(n, s) == (n + s - 1) \div s

\* C8: for each configured insert sub-batch size s, process_batch issues
\* ceil(n / s) inserts for its n validated records, of sizes s, ..., s and
\* the remainder, and, when every insert that failed failed entirely
\* (acknowledged nothing), returns the sum of their acknowledged counts.
C8_InsertsAreSubBatched ==
  pc \in {"aggregate", "returned"} =>
    \A s \in InsertBatchSizes :
      LET n == Len(valid_records)
          ops == OpsOfBatch
      IN /\ Len(ops) = Ceil(n, s)
         /\ \A j \in 1..Len(ops) :
              Len(ops[j].docs) = IF j * s <= n THEN s ELSE n - (j - 1) * s
         /\ (\A j \in 1..Len(ops) : ops[j].raised => ops[j].acked = 0) =>
              batch_processed = SumAcked(ops, Len(ops))

\* C9: whenever no thread is inside _log_validation_error, every entry that
\* was appended is in the in-memory buffer or in the persisted log, in every
\* interleaving of the workers in which no write of the log failed.
C9_NoEntryLost ==
  (Quiescent /\ ~write_failed) => \A e \in appended : e \in Collected

\* The steps of _flush_validation_log (lines 346-363).
FlushPlaces ==
  {"flush_read", "flush_open", "flush_dump", "flush_rename", "flush_clear"}

IsPrefix(s, t) == Len(s) <= Len(t) /\ \A i \in 1..Len(s) : s[i] = t[i]

\* C10, as worded: when the process dies while a thread is at any step of a
\* flush, the log file holds exactly what it held when that flush started.
C10_CrashLeavesLogAsBefore ==
  pc = "crashed" =>
    \A t \in Threads : crash_at[t] \in FlushPlaces => logFile = base[t]

\* C10: when the process dies while a thread is at any step of a flush, the
\* entries that were persisted when that flush started are still in the log
\* file: it is a readable list that begins with them.  (The claim says the
\* log holds exactly those entries, which implies this.)
C10_CrashKeepsPersistedEntries ==
  pc = "crashed" =>
    \A t \in Threads :
      (crash_at[t] \in FlushPlaces /\ base[t].st = "json") =>
        /\ logFile.st = "json"
        /\ IsPrefix(base[t].entries, logFile.entries)

\* C11: the persisted log is append-only: no step of any thread removes or
\* alters an entry the log file holds (the log before the step is a prefix
\* of the log after it), and the step that completes a flush (the rename)
\* leaves the entries the log held followed by the buffer.  Runs in which a
\* write of the log failed are left aside.
C11_LogIsAppendOnly ==
  [][~write_failed' =>
       /\ logFile.st = "json" =>
            /\ logFile'.st = "json"
            /\ IsPrefix(logFile.entries, logFile'.entries)
       /\ \A t \in Threads :
            (tpc[t] = "flush_rename" /\ tpc'[t] = "flush_clear") =>
              logFile'.entries = LoadExisting(logFile) \o validation_errors]_vars

(***************************************************************************)
(* The validation rules as the specification words them.                   *)
(***************************************************************************)
Required == {"timestamp", "device_id", "temperature", "humidity", "pressure", "location"}
Optional == {"light", "sound", "motion", "battery"}

Present(d, f) == f \in DOMAIN d /\ d[f] # None

\* A NaN is a number (a float) that lies in no range.
RightType(f, v) ==
  CASE f = "timestamp" -> v.ty \in {"str", "datetime"}
    [] f \in {"device_id", "location"} -> v.ty = "str"
    [] f \in {"temperature", "humidity", "pressure", "battery"} ->
         v.ty \in {"int", "float", "nan"}
    [] f \in {"light", "sound", "motion"} -> v.ty = "int"

InRange(f, v) ==
  v.ty # "nan" /\
  CASE f = "temperature" -> v.n \in -50..50
    [] f = "humidity" -> v.n \in 0..100
    [] f = "pressure" -> v.n \in 800..1200
    [] f \in {"light", "sound"} -> v.n >= 0
    [] f = "motion" -> v.n \in {0, 1}
    [] f = "battery" -> v.n \in 0..100
    [] OTHER -> TRUE

MissingRequired(d) == \E f \in Required : ~Present(d, f)
WrongTypeRequired(d) == \E f \in Required : Present(d, f) /\ ~RightType(f, d[f])
WrongTypeOptional(d) == \E f \in Optional : Present(d, f) /\ ~RightType(f, d[f])
OutOfRange(d) ==
  \E f \in Required \cup Optional :
    Present(d, f) /\ RightType(f, d[f]) /\ ~InRange(f, d[f])

ValidRecord(d) ==
  /\ \A f \in Required : Present(d, f) /\ RightType(f, d[f]) /\ InRange(f, d[f])
  /\ \A f \in Optional : Present(d, f) => RightType(f, d[f]) /\ InRange(f, d[f])

\* The kind of error an error_reason of _validate_fields states.
KindOf(reason) ==
  CASE reason \in {"Missing or null field: " \o f : f \in Required} -> "missing_field"
    [] reason \in {"Invalid timestamp type", "Invalid device_id type",
                   "Invalid temperature type", "Invalid humidity type",
                   "Invalid pressure type", "Invalid location type",
                   "Invalid light type", "Invalid sound type",
                   "Invalid motion type", "Invalid battery type"} -> "invalid_type"
    [] reason \in {"Temperature out of range", "Humidity out of range",
                   "Pressure out of range", "Light out of range",
                   "Sound out of range", "Motion out of range",
                   "Battery out of range"} -> "out_of_range"
    [] reason = "OK" -> "pass"
    [] OTHER -> "other"

\* The calls of _validate_fields made so far: by validate_data on the dict
\* as given (first) and on the normalized dict (retry), and by the pool
\* thread of process_batch on the one normalized record.  An outcome is
\* "OK" or the error_reason of the entry the call appended.
FirstCalled == vd.first # "none"
RetryCalled == vd.retry # "none"
BatchValidated ==
  /\ caller = "direct" /\ pc \in {"insert", "returned"}
  /\ Len(batch) = 1 /\ Len(normalized_batch) = 1
BatchOutcome ==
  IF validation_results[1] = "pass" THEN "OK"
  ELSE IF appended = {} THEN "no entry"
  ELSE (CHOOSE e \in appended : TRUE).error_reason

\* P holds of every call of _validate_fields made so far.
EveryCall(P(_, _)) ==
  /\ FirstCalled => P(DictOf(vd.items), vd.first)
  /\ RetryCalled => P(normalize_record_fields(vd.items), vd.retry)
  /\ BatchValidated => P(normalized_batch[1].rec, BatchOutcome)

\* C12: a record whose required fields are present, non-null, of the right
\* type and within the inclusive ranges, and whose optional fields are
\* absent, null, or of the right type and in range, passes: _validate_fields
\* returns True for it and appends no entry.
C12_ValidRecordPasses ==
  /\ EveryCall(LAMBDA d, r : ValidRecord(d) => r = "OK")
  /\ (FirstCalled /\ ValidRecord(DictOf(vd.items))) =>
       vd.result = "True" /\ appended = {}
  /\ (BatchValidated /\ ValidRecord(normalized_batch[1].rec)) =>
       appended = {} /\ Len(valid_records) = 1

\* A record with the temperature on its upper bound and a null optional
\* field went through validate_data and passed at the first attempt.
C12_Witness ==
  /\ pc = "vd_returned" /\ vd.first = "OK" /\ vd.result = "True"
  /\ vd.data["temperature"].n = 50
  /\ "light" \in DOMAIN vd.data /\ vd.data["light"] = None

\* The kinds of rule a record violates.
KindsViolated(d) ==
  (IF MissingRequired(d) THEN {"missing_field"} ELSE {})
  \cup (IF WrongTypeRequired(d) \/ WrongTypeOptional(d) THEN {"invalid_type"} ELSE {})
  \cup (IF OutOfRange(d) THEN {"out_of_range"} ELSE {})

\* C13: for a record that misses a required field (or has it null), has a
\* required field of the wrong type, or has a numeric field outside its
\* inclusive range, _validate_fields returns False and appends an entry
\* whose reason states a kind of rule the record violates: missing_field,
\* invalid_type or out_of_range (the one kind, when it violates one).
C13_InvalidRecordFailsWithKind ==
  /\ EveryCall(LAMBDA d, r :
       (MissingRequired(d) \/ WrongTypeRequired(d) \/ OutOfRange(d)) =>
         r # "OK" /\ KindOf(r) \in KindsViolated(d))
  /\ (FirstCalled /\ vd.first # "OK") => ErrorEntry(1, vd.first) \in appended
  /\ (RetryCalled /\ vd.retry # "OK") => ErrorEntry(1, vd.retry) \in appended
  /\ (BatchValidated /\ validation_results[1] # "pass") =>
       \E e \in appended : e.row = 1 /\ KindOf(e.error_reason) # "other"

\* validate_data returned for a record whose only fault is a required field
\* of the wrong type; the entry says invalid_type.
C13_Witness ==
  /\ pc = "vd_returned"
  /\ KindsViolated(DictOf(vd.items)) = {"invalid_type"}
  /\ WrongTypeRequired(DictOf(vd.items))
  /\ KindOf(vd.first) = "invalid_type"
  /\ vd.result = "False"

\* The kind of the first rule a record violates, in the order presence,
\* type, range.
FirstKindViolated(d) ==
  IF MissingRequired(d) THEN "missing_field"
  ELSE IF WrongTypeRequired(d) \/ WrongTypeOptional(d) THEN "invalid_type"
  ELSE IF OutOfRange(d) THEN "out_of_range"
  ELSE "pass"

\* C14: _validate_fields applies its rules in the order presence of the
\* required fields, types, ranges, and reports the first failure: the kind
\* its outcome states is the kind of the earliest rule the record violates.
C14_FirstFailureWins ==
  EveryCall(LAMBDA d, r : KindOf(r) = FirstKindViolated(d))

\* validate_data returned for a record that misses a required field and has
\* another of the wrong type: both of its calls report missing_field.
C14_Witness ==
  /\ pc = "vd_returned"
  /\ LET d == DictOf(vd.items)
     IN /\ MissingRequired(d) /\ WrongTypeRequired(d) /\ ~OutOfRange(d)
        /\ KindOf(vd.first) = "missing_field"
        /\ vd.retry # "none" /\ KindOf(vd.retry) = "missing_field"

\* The fields in the order the rules name them.
CheckOrder ==
  <<"timestamp", "device_id", "temperature", "humidity", "pressure",
    "location", "light", "sound", "motion", "battery">>

\* The first field of CheckOrder that satisfies Bad ("none" without one).
FirstField(Bad(_)) ==
  LET bad == {i \in 1..Len(CheckOrder) : Bad(CheckOrder[i])}
  IN IF bad = {} THEN "none"
     ELSE CheckOrder[CHOOSE i \in bad : \A j \in bad : i <= j]

\* The field of the first rule a record violates.
FirstFailingField(d) ==
  IF MissingRequired(d)
  THEN FirstField(LAMBDA f : f \in Required /\ ~Present(d, f))
  ELSE IF WrongTypeRequired(d) \/ WrongTypeOptional(d)
  THEN FirstField(LAMBDA f : Present(d, f) /\ ~RightType(f, d[f]))
  ELSE FirstField(LAMBDA f : Present(d, f) /\ ~InRange(f, d[f]))

\* The field an error_reason names.
FieldOf(reason) ==
  LET named == {f \in Required \cup Optional :
                  reason \in {"Missing or null field: " \o f,
                              "Invalid " \o f \o " type"}}
  IN IF named # {} THEN CHOOSE f \in named : TRUE
     ELSE CASE reason = "Temperature out of range" -> "temperature"
            [] reason = "Humidity out of range" -> "humidity"
            [] reason = "Pressure out of range" -> "pressure"
            [] reason = "Light out of range" -> "light"
            [] reason = "Sound out of range" -> "sound"
            [] reason = "Motion out of range" -> "motion"
            [] reason = "Battery out of range" -> "battery"
            [] OTHER -> "none"

\* The entries the Error Collector holds for the record validated (row 1),
\* in the buffer and in the log.
EntriesOfRecord ==
  SelectSeq(LoadExisting(logFile) \o validation_errors, LAMBDA e : e.row = 1)

\* C15: validating one invalid record appends exactly one entry, and the
\* entry names the first failing field, in validate_data (on return of
\* False) and in the validation of process_batch (once the results are
\* collected).  Runs in which a write of the log failed are left aside.
C15_OneEntryPerInvalidRecord ==
  /\ (pc = "vd_returned" /\ vd.result = "False" /\ ~write_failed) =>
       /\ Len(EntriesOfRecord) = 1
       /\ FieldOf(EntriesOfRecord[1].error_reason) =
            FirstFailingField(DictOf(vd.items))
  /\ (BatchValidated /\ validation_results[1] # "pass") =>
       /\ Len(EntriesOfRecord) = 1
       /\ FieldOf(EntriesOfRecord[1].error_reason) =
            FirstFailingField(normalized_batch[1].rec)

\* The half of C15 about process_batch alone.
C15_OneEntryInProcessBatch ==
  (BatchValidated /\ validation_results[1] # "pass") =>
    /\ Len(EntriesOfRecord) = 1
    /\ FieldOf(EntriesOfRecord[1].error_reason) =
         FirstFailingField(normalized_batch[1].rec)

(***************************************************************************)
(* The normalizer as the specification words it.                           *)
(***************************************************************************)
\* The canonical fields of the input records that the alias table lists.
Aliased ==
  {"timestamp", "device_id", "temperature", "humidity", "pressure",
   "location", "value1"}

\* The canonical names: the specification's Canonical Fields.
CanonicalNames ==
  {"timestamp", "device_id", "temperature", "humidity", "pressure",
   "value1", "value2", "value3", "value4", "location",
   "light", "sound", "motion", "battery"}

\* The canonical name a key is an alias of, in any case ("none" without).
CanonicalOf(key) ==
  LET of == {f \in Aliased : \E style \in Styles : Spelling(style, f) = key}
  IN IF of = {} THEN "none" ELSE CHOOSE f \in of : TRUE

\* process_batch of one record has normalized it.
BatchNormalized ==
  /\ caller = "direct" /\ pc \in {"validate", "insert", "returned"}
  /\ Len(batch) = 1

\* The normalized record of that batch (an empty one is not kept).
NormalizedRecord ==
  IF normalized_batch = <<>> THEN EmptyDict ELSE normalized_batch[1].rec

\* C16: the normalizer rewrites every key that matches an alias, in any
\* case, to its canonical name, keeps the value, and drops every key with
\* no alias.
C16_AliasesRewrittenOthersDropped ==
  BatchNormalized =>
    LET raw == batch[1].rec
    IN /\ \A i \in 1..Len(raw) :
            CanonicalOf(raw[i].k) # "none" =>
              /\ CanonicalOf(raw[i].k) \in DOMAIN NormalizedRecord
              /\ NormalizedRecord[CanonicalOf(raw[i].k)] = raw[i].v
       /\ \A k \in DOMAIN NormalizedRecord :
            \E i \in 1..Len(raw) : CanonicalOf(raw[i].k) = k

\* A record with the keys Temp_C and zzz_unknown has been normalized:
\* temperature holds the value of Temp_C, zzz_unknown is gone.
C16_Witness ==
  /\ BatchNormalized
  /\ \E i, j \in 1..Len(batch[1].rec) :
       /\ batch[1].rec[i].k = "Temp_C" /\ batch[1].rec[j].k = "zzz_unknown"
       /\ "temperature" \in DOMAIN NormalizedRecord
       /\ NormalizedRecord["temperature"] = batch[1].rec[i].v
  /\ "zzz_unknown" \notin DOMAIN NormalizedRecord
  /\ "Temp_C" \notin DOMAIN NormalizedRecord

\* C17: a record whose keys are all canonical field names is returned by
\* the normalizer unchanged.
C17_CanonicalRecordUnchanged ==
  (BatchNormalized /\ \A i \in 1..Len(batch[1].rec) :
                        batch[1].rec[i].k \in CanonicalNames) =>
    NormalizedRecord = DictOf(batch[1].rec)

\* C17 for the canonical names the alias table lists.
C17_ListedCanonicalUnchanged ==
  (BatchNormalized /\ \A i \in 1..Len(batch[1].rec) :
                        batch[1].rec[i].k \in Aliased) =>
    NormalizedRecord = DictOf(batch[1].rec)

\* The text "not-a-date": a str no date parser accepts.
NotADate == Str(9)

\* C18: a record that is valid but for a timestamp holding the text
\* "not-a-date" passes validation, is then dropped with an entry of kind
\* timestamp_conversion_failed, is not submitted to the store and is not
\* counted as processed.
C18_UnparsableTimestampDropped ==
  (/\ caller = "direct" /\ pc = "returned"
   /\ Len(batch) = 1 /\ Len(normalized_batch) = 1
   /\ normalized_batch[1].rec["timestamp"] = NotADate
   /\ ValidRecord(normalized_batch[1].rec)) =>
    /\ validation_results[1] = "pass"
    /\ \E e \in appended : e.error_reason = "timestamp_conversion_failed"
    /\ inserts = <<>>
    /\ batch_processed = 0

\* The rows read so far that the validation rules accept, and those they
\* reject because the temperature is outside its range.
RowsPassing ==
  {i \in 1..Len(read_rows) : ValidRecord(normalize_record_fields(read_rows[i]))}

RowsTooHot ==
  {i \in 1..Len(read_rows) :
     LET d == normalize_record_fields(read_rows[i])
     IN Present(d, "temperature") /\ RightType("temperature", d["temperature"])
        /\ ~InRange("temperature", d["temperature"])}

\* The out_of_range entries naming temperature that the Error Collector
\* holds (persisted log, then buffer).
TemperatureEntries ==
  SelectSeq(LoadExisting(logFile) \o validation_errors,
            LAMBDA e : /\ KindOf(e.error_reason) = "out_of_range"
                       /\ FieldOf(e.error_reason) = "temperature")

AllAcknowledged ==
  \A i \in 1..Len(inserts) :
    ~inserts[i].raised /\ inserts[i].acked = Len(inserts[i].docs)

\* C19: when a run in which the store acknowledged every submitted record
\* has completed, processed_records is the number of input rows that pass
\* validation, failed_records the number that do not, and the Error
\* Collector holds as many out_of_range entries naming temperature as rows
\* were rejected for the temperature range.  Runs in which a write of the
\* log failed are left aside.
C19_CountsAndEntriesMatchInput ==
  (caller = "run" /\ pc \in ReturnedPcs /\ Quiescent /\ AllAcknowledged
   /\ ~write_failed) =>
    /\ result.processed_records = Cardinality(RowsPassing)
    /\ result.failed_records = Len(read_rows) - Cardinality(RowsPassing)
    /\ Len(TemperatureEntries) = Cardinality(RowsTooHot)

\* The counting half of C19, with the entries ever appended in place of
\* the entries the Error Collector still holds.
C19_CountsMatchInput ==
  (caller = "run" /\ pc \in ReturnedPcs /\ AllAcknowledged) =>
    /\ result.processed_records = Cardinality(RowsPassing)
    /\ result.failed_records = Len(read_rows) - Cardinality(RowsPassing)
    /\ Cardinality({e \in appended :
                      /\ KindOf(e.error_reason) = "out_of_range"
                      /\ FieldOf(e.error_reason) = "temperature"}) =
         Cardinality(RowsTooHot)

MaxCsvRows == 7
chunk_size == 2
maxsize == 2
NoneItem == 0

NumChunks(rows) == (rows + chunk_size - 1) \div chunk_size

ChunkLen(rows, k) ==
  IF k * chunk_size <= rows THEN chunk_size ELSE rows - (k - 1) * chunk_size

CsvInputs ==
  {in \in [rows : 0..MaxCsvRows, fail_at : 0..(MaxCsvRows + 1)] :
     in.fail_at <= (IF in.rows = 0 THEN 1 ELSE NumChunks(in.rows))}

\* The next step of the pd.read_csv iterator: it raises, is exhausted, or
\* delivers the next chunk.
IterFails == csv_input.fail_at = read_pos + 1
IterEnds == ~IterFails /\ read_pos = NumChunks(csv_input.rows)
IterChunk == ChunkLen(csv_input.rows, read_pos + 1)

CsvReturn(method) ==
  [method |-> method, total_records |-> csv_total_records,
   chunks_processed |-> chunks_processed]

\* test_csv_reading.py:62-71: one of the three methods is called on a file.
CallReadCsv ==
  /\ csv_pc = "idle"
  /\ \E m \in {"sequential", "threaded", "parallel"} : \E in \in CsvInputs :
       /\ csv_method' = m
       /\ csv_input' = in
       /\ csv_pc' = CASE m = "sequential" -> "seq_read"
                      [] m = "threaded" -> "consume"
                      [] OTHER -> "par_read"
       /\ reader_pc' = IF m = "threaded" THEN "read" ELSE "idle"
  /\ UNCHANGED <<read_pos, held, chunk_queue, futures, csv_total_records,
                 chunks_processed, csv_result, procVars>>

\* csv_processor.py:27-48: one turn of the loop of read_csv_sequential, its
\* return, or its except clause re-raising.
SeqStep ==
  /\ csv_pc = "seq_read"
  /\ IF IterFails
     THEN /\ csv_pc' = "raised"
          /\ UNCHANGED <<read_pos, csv_total_records, chunks_processed, csv_result>>
     ELSE IF IterEnds
     THEN /\ csv_result' = CsvReturn("sequential")
          /\ csv_pc' = "returned"
          /\ UNCHANGED <<read_pos, csv_total_records, chunks_processed>>
     ELSE /\ csv_total_records' = csv_total_records + IterChunk
          /\ chunks_processed' = chunks_processed + 1
          /\ read_pos' = read_pos + 1
          /\ UNCHANGED <<csv_pc, csv_result>>
  /\ UNCHANGED <<csv_method, csv_input, reader_pc, held, chunk_queue, futures,
                 procVars>>

\* As OnReaderError, but the reader thread ends without a signal.
OnReaderErrorSilent == "done"

\* csv_processor.py:68-70: the reader logs the error and goes on to put None.
OnReaderError == "put_end"

\* csv_processor.py:59-65: the reader thread asks the iterator for a chunk.
ReaderRead ==
  /\ reader_pc = "read"
  /\ IF IterFails
     THEN reader_pc' = OnReaderError /\ UNCHANGED <<read_pos, held>>
     ELSE IF IterEnds
     THEN reader_pc' = "put_end" /\ UNCHANGED <<read_pos, held>>
     ELSE /\ held' = IterChunk
          /\ read_pos' = read_pos + 1
          /\ reader_pc' = "put"
  /\ UNCHANGED <<csv_method, csv_input, csv_pc, chunk_queue, futures,
                 csv_total_records, chunks_processed, csv_result, procVars>>

\* csv_processor.py:66: chunk_queue.put(chunk) blocks while the queue is full.
ReaderPut ==
  /\ reader_pc = "put"
  /\ Len(chunk_queue) < maxsize
  /\ chunk_queue' = Append(chunk_queue, held)
  /\ held' = 0
  /\ reader_pc' = "read"
  /\ UNCHANGED <<csv_method, csv_input, csv_pc, read_pos, futures,
                 csv_total_records, chunks_processed, csv_result, procVars>>

\* csv_processor.py:67 and 70: chunk_queue.put(None), then the thread ends.
ReaderPutEnd ==
  /\ reader_pc = "put_end"
  /\ Len(chunk_queue) < maxsize
  /\ chunk_queue' = Append(chunk_queue, NoneItem)
  /\ reader_pc' = "done"
  /\ UNCHANGED <<csv_method, csv_input, csv_pc, read_pos, held, futures,
                 csv_total_records, chunks_processed, csv_result, procVars>>

\* csv_processor.py:77-91: chunk_queue.get() blocks while the queue is empty;
\* None ends the loop and the method returns.
Consume ==
  /\ csv_pc = "consume"
  /\ chunk_queue # <<>>
  /\ chunk_queue' = Tail(chunk_queue)
  /\ IF Head(chunk_queue) = NoneItem
     THEN /\ csv_result' = CsvReturn("threaded")
          /\ csv_pc' = "returned"
          /\ UNCHANGED <<csv_total_records, chunks_processed>>
     ELSE /\ csv_total_records' = csv_total_records + Head(chunk_queue)
          /\ chunks_processed' = chunks_processed + 1
          /\ UNCHANGED <<csv_pc, csv_result>>
  /\ UNCHANGED <<csv_method, csv_input, reader_pc, read_pos, held, futures,
                 procVars>>

\* csv_processor.py:105-114: one turn of the submitting loop of
\* read_csv_parallel.  An exception leaves the with block, which first
\* waits for the submitted tasks.
ParSubmit ==
  /\ csv_pc = "par_read"
  /\ IF IterFails
     THEN /\ csv_pc' = "par_abort"
          /\ UNCHANGED <<read_pos, futures, chunks_processed>>
     ELSE IF IterEnds
     THEN /\ csv_pc' = "par_collect"
          /\ UNCHANGED <<read_pos, futures, chunks_processed>>
     ELSE /\ futures' = Append(futures, [n |-> IterChunk, done |-> FALSE])
          /\ chunks_processed' = chunks_processed + 1
          /\ read_pos' = read_pos + 1
          /\ UNCHANGED csv_pc
  /\ UNCHANGED <<csv_method, csv_input, reader_pc, held, chunk_queue,
                 csv_total_records, csv_result, procVars>>

\* csv_processor.py:99-100: a pool thread runs process_chunk for a future.
PoolRun(i) ==
  /\ i \in 1..Len(futures)
  /\ ~futures[i].done
  /\ futures' = [futures EXCEPT ![i].done = TRUE]
  /\ UNCHANGED <<csv_method, csv_input, csv_pc, reader_pc, read_pos, held,
                 chunk_queue, csv_total_records, chunks_processed, csv_result,
                 procVars>>

\* csv_processor.py:117-127: future.result() of the futures in order, each
\* waiting for its task; then the return.
ParCollect ==
  /\ csv_pc = "par_collect"
  /\ IF futures = <<>>
     THEN /\ csv_result' = CsvReturn("parallel")
          /\ csv_pc' = "returned"
          /\ UNCHANGED <<futures, csv_total_records>>
     ELSE /\ Head(futures).done
          /\ csv_total_records' = csv_total_records + Head(futures).n
          /\ futures' = Tail(futures)
          /\ UNCHANGED <<csv_pc, csv_result>>
  /\ UNCHANGED <<csv_method, csv_input, reader_pc, read_pos, held, chunk_queue,
                 chunks_processed, procVars>>

\* csv_processor.py:103 and 128-130: the executor has shut down; the except
\* clause logs and re-raises.
ParAbort ==
  /\ csv_pc = "par_abort"
  /\ \A i \in 1..Len(futures) : futures[i].done
  /\ csv_pc' = "raised"
  /\ UNCHANGED <<csv_method, csv_input, reader_pc, read_pos, held, chunk_queue,
                 futures, csv_total_records, chunks_processed, csv_result,
                 procVars>>

CallerStep == SeqStep \/ Consume \/ ParSubmit \/ ParCollect \/ ParAbort
ReaderStep == ReaderRead \/ ReaderPut \/ ReaderPutEnd
PoolStep == \E i \in 1..(NumChunks(MaxCsvRows) + 1) : PoolRun(i)

NextCsv == CallReadCsv \/ CallerStep \/ ReaderStep \/ PoolStep

SpecCsv == Init /\ [][NextCsv]_vars

\* Scheduling: the calling thread, the reader thread and the pool threads
\* each keep running while they are not blocked.
CsvFairness ==
  /\ WF_vars(CallerStep)
  /\ WF_vars(ReaderStep)
  /\ WF_vars(PoolStep)

SpecCsvLive == Init /\ [][NextCsv]_vars /\ CsvFairness

\* processor.py:701-723: the summary of the persisted log.  error_types maps
\* each error_reason of the log to the number of its entries; a log that
\* json.load cannot read gives {"error": ...}.
get_validation_summary ==
  IF logFile.st = "absent"
  THEN [kind |-> "summary", total_errors |-> 0, error_types |-> <<>>]
  ELSE IF logFile.st = "json"
  THEN LET errors == logFile.entries
           reasons == {errors[i].error_reason : i \in 1..Len(errors)}
       IN [kind |-> "summary",
           total_errors |-> Len(errors),
           error_types |->
             [r \in reasons |->
                Len(SelectSeq(errors, LAMBDA e : e.error_reason = r))]]
  ELSE [kind |-> "error", total_errors |-> 0, error_types |-> <<>>]

\* The sum of the counts of a summary's error_types.
RECURSIVE SumCounts(_, _)
SumCounts(types, rs) ==
  IF rs = {} THEN 0
  ELSE LET r == CHOOSE x \in rs : TRUE
       IN types[r] + SumCounts(types, rs \ {r})

SummaryTotal ==
  SumCounts(get_validation_summary.error_types,
            DOMAIN get_validation_summary.error_types)

\* C22: once a run has been closed, the summary gives a count per error
\* reason, the counts sum to its total, and the total covers every entry
\* recorded during the run.  Runs in which a write of the log failed are
\* left aside.
C22_SummaryCoversEveryEntry ==
  (caller = "run" /\ pc = "closed" /\ ~write_failed) =>
    /\ get_validation_summary.kind = "summary"
    /\ SummaryTotal = get_validation_summary.total_errors
    /\ SummaryTotal >= Cardinality(appended)

\* C22, as worded: the counts sum to exactly the number of entries recorded
\* during the run.
C22_SummaryIsRunTotal ==
  (caller = "run" /\ pc = "closed" /\ ~write_failed) =>
    SummaryTotal = Cardinality(appended)

\* What does hold: the counts sum to the number of entries in the log.
C22_SummaryCountsLog ==
  get_validation_summary.kind = "summary" =>
    /\ SummaryTotal = get_validation_summary.total_errors
    /\ SummaryTotal = Len(LoadExisting(logFile))

\* C21: once connecting to the store or reading the input has failed, the
\* exception has left the run (nothing is returned, only close() follows),
\* and from then on no chunk is read, no batch is processed and no insert
\* is issued.
C21_FatalErrorStopsAndSurfaces ==
  [][/\ run_error' # "none" =>
         /\ pc' \in {"raised", "closing", "closed"}
         /\ result' = NoResult
     /\ run_error # "none" =>
         /\ run_error' = run_error
         /\ read_rows' = read_rows /\ total_records' = total_records
         /\ batch_no' = batch_no /\ inserts' = inserts
         /\ processed_records' = processed_records]_vars

\* The read failed after a chunk had been read and inserted, and close()
\* has run since.
C21_Witness ==
  /\ run_error = "read" /\ pc = "closed"
  /\ Len(read_rows) > 0 /\ inserts # <<>>

\* C23: when validate_data has returned, the validator was called first on
\* the record under its original names; it was called a second time only if
\* the first call failed and the normalization gave a non-empty record,
\* and then on the normalized record; a first call that passed and a second
\* call that passed both return True, everything else False; and after a
\* second call that passed the original record holds the normalized values
\* on top of its own.
C23_RetryOnlyAfterFailureOnce ==
  pc = "vd_returned" =>
    LET original == DictOf(vd.items)
        n == normalize_record_fields(vd.items)
    IN /\ vd.first = validate_fields(original)
       /\ RetryCalled <=> (vd.first # "OK" /\ DOMAIN n # {})
       /\ RetryCalled => vd.retry = validate_fields(n)
       /\ vd.result = IF vd.first = "OK" \/ vd.retry = "OK" THEN "True" ELSE "False"
       /\ vd.retry # "OK" => vd.data = original
       /\ vd.retry = "OK" =>
            /\ DOMAIN vd.data = (DOMAIN original) \cup (DOMAIN n)
            /\ \A k \in DOMAIN n : vd.data[k] = n[k]
            /\ \A k \in (DOMAIN original) \ (DOMAIN n) : vd.data[k] = original[k]

\* validate_data returned True on the second call and the original record
\* was changed by the update.
C23_Witness ==
  /\ pc = "vd_returned" /\ vd.first # "OK" /\ vd.retry = "OK"
  /\ vd.result = "True"
  /\ vd.data # DictOf(vd.items)

\* validate_data returned False for a record whose normalization is empty,
\* without a second call.
C23_EmptyNormalizationReached ==
  /\ pc = "vd_returned" /\ vd.first # "OK" /\ ~RetryCalled
  /\ vd.result = "False"

\* The places of the coordinating thread after the insert of batch batch_no
\* has returned ("normalize": the next batch is in hand and batch_no not yet
\* counted up).
AfterInsertPcs ==
  {"aggregate", "returned", "read", "normalize", "done", "closing", "closed"}

\* C24: a pool thread runs validation only while the coordinating thread
\* is in the validation stage of process_batch; when that stage is left,
\* every record of the batch has its result; an insert of a batch exists
\* only once its validation stage is left; and while a batch is validated
\* every insert on record belongs to an earlier batch.
C24_StageBarrier ==
  /\ (\E w \in Workers : tpc[w] # "idle") => pc = "validate"
  /\ pc \in {"insert"} \cup AfterInsertPcs =>
       \A i \in 1..Len(validation_results) : validation_results[i] \in {"pass", "fail"}
  /\ \A i \in 1..Len(inserts) :
       /\ inserts[i].batch <= batch_no
       /\ inserts[i].batch = batch_no => pc \in AfterInsertPcs
  /\ pc = "validate" => \A i \in 1..Len(inserts) : inserts[i].batch < batch_no

\* The second chunk of a run is being validated by a pool thread that is
\* inside a flush, and the insert of the first chunk is on record.
C24_Witness ==
  /\ caller = "run" /\ pc = "validate" /\ batch_no = 2
  /\ \E w \in Workers : tpc[w] \in FlushPlaces
  /\ \E i \in 1..Len(inserts) : inserts[i].batch = 1

\* The validation tasks that are running: the pool threads inside
\* _validate_fields, _log_validation_error or a flush.
RunningTasks == {w \in Workers : tpc[w] # "idle"}

\* C25: at every moment of a run at most max_workers validation tasks are
\* running, and the pool threads come from a single executor that serves
\* every batch of the run.
C25_OnePoolBoundsValidation ==
  caller = "run" =>
    /\ Cardinality(RunningTasks) <= max_workers
    /\ executors <= 1

\* What does hold: at most max_workers tasks run at once and one executor
\* is created per call of process_batch, none per record.
C25_OnePoolPerBatch ==
  /\ Cardinality(RunningTasks) <= max_workers
  /\ executors = batch_no
  /\ caller = "run" => executors <= file_stats.total_batches

\* What does hold of the buffer: whenever no thread is inside
\* _log_validation_error it holds fewer entries than the flush threshold;
\* when close() is about to clear it every entry of it is in the persisted
\* log; and after close() it is empty.  Runs in which a write of the log
\* failed are left aside.
C26_BufferBoundedAndDrained ==
  ~write_failed =>
    /\ Quiescent => Len(validation_errors) < FlushThreshold
    /\ (pc = "closing" /\ tpc[Main] = "flush_clear") =>
         Range(validation_errors) \subseteq Range(LoadExisting(logFile))
    /\ pc = "closed" => validation_errors = <<>>

\* C26: after every operation that appends an entry, that is whenever a
\* thread returns from _log_validation_error (or close() from its flush),
\* the buffer holds fewer entries than the flush threshold.  Runs in which
\* a write of the log failed are left aside.
C26_BoundedAtEveryReturn ==
  [][\A t \in Threads :
       (tpc[t] \notin {"idle", "dead"} /\ tpc'[t] = "idle" /\ ~write_failed') =>
         Len(validation_errors') < FlushThreshold]_vars

\* C27: when validate_data has returned True, by the first call or by the
\* call on the normalized record, no error entry was appended for the
\* record during that call.
C27_AcceptedRecordLeavesNoEntry ==
  (pc = "vd_returned" /\ vd.result = "True") =>
    /\ appended = {}
    /\ EntriesOfRecord = <<>>

\* What does hold: a record accepted by the first call leaves no entry.
C27_AcceptedAtOnceLeavesNoEntry ==
  (pc = "vd_returned" /\ vd.first = "OK") =>
    appended = {} /\ EntriesOfRecord = <<>>

\* The records of the current batch that passed validation.
PassedInBatch ==
  {i \in 1..Len(normalized_batch) : validation_results[i] = "pass"}

\* C28: in every state of a run 0 <= processed_records <= total_records
\* and failed_records >= 0 (in file_stats and in the returned statistics);
\* what process_batch returns, and what a step adds to processed_records,
\* is at most the number of records of the batch that passed validation;
\* and total_batches goes up by one exactly when a chunk is consumed.
C28_CountsStayWithinBounds ==
  [][caller' = "run" =>
       /\ 0 <= processed_records' /\ processed_records' <= total_records'
       /\ total_records' = Len(read_rows')
       /\ 0 <= file_stats'.processed_records
       /\ file_stats'.processed_records <= file_stats'.total_records
       /\ file_stats'.failed_records >= 0
       /\ result'.failed_records >= 0
       /\ result'.processed_records <= result'.total_records
       /\ pc' = "aggregate" =>
            0 <= batch_processed' /\ batch_processed' <= Cardinality(PassedInBatch')
       /\ processed_records' - processed_records \in 0..Cardinality(PassedInBatch)
       /\ file_stats'.total_batches =
            file_stats.total_batches + (IF read_rows' # read_rows THEN 1 ELSE 0)]_vars

\* In the second chunk of a run one record failed validation, the store
\* refused part of the insert, and nothing is credited for the batch.
C28_Witness ==
  /\ caller = "run" /\ pc = "aggregate" /\ file_stats.total_batches = 2
  /\ Cardinality(PassedInBatch) = 1 /\ Len(normalized_batch) = 2
  /\ batch_processed = 0
  /\ processed_records > 0

\* C29: in read_csv_threaded the queue never holds more than maxsize items,
\* and every call ends: the end signal is put and received, the method
\* returns and the reader thread has ended, whether the file was read to
\* its end or reading failed.
C29_ThreadedReadTerminates ==
  /\ [](Len(chunk_queue) <= maxsize)
  /\ (csv_method = "threaded") ~>
       (csv_pc = "returned" /\ reader_pc = "done" /\ chunk_queue = <<>>)

\* The reader thread is blocked on the full queue with a chunk in hand, in
\* a call on a file whose reading will fail later.
C29_Witness ==
  /\ csv_method = "threaded" /\ reader_pc = "put" /\ held > 0
  /\ Len(chunk_queue) = maxsize
  /\ csv_input.fail_at > read_pos

\* C30: whichever of read_csv_sequential, read_csv_threaded and
\* read_csv_parallel is called, and however its threads are scheduled, a
\* call that returns reports the number of rows of the file as
\* total_records and its number of chunks as chunks_processed, and a call
\* on a file whose reading fails after the first chunk does not return a
\* count: it raises.
C30_SameCountsOrRaise ==
  /\ (csv_pc = "returned" /\ csv_input.fail_at = 0) =>
       /\ csv_result.total_records = csv_input.rows
       /\ csv_result.chunks_processed = NumChunks(csv_input.rows)
  /\ csv_input.fail_at > 1 => csv_pc # "returned"
  /\ csv_pc = "raised" => csv_input.fail_at # 0

\* What does hold: on a file that is read to its end the three methods
\* report the same counts, and read_csv_sequential and read_csv_parallel
\* raise when reading fails.
C30_SameCountsWithoutFailure ==
  /\ (csv_pc = "returned" /\ csv_input.fail_at = 0) =>
       /\ csv_result.total_records = csv_input.rows
       /\ csv_result.chunks_processed = NumChunks(csv_input.rows)
  /\ (csv_pc = "returned" /\ csv_method # "threaded") => csv_input.fail_at = 0
  /\ csv_pc = "raised" => csv_input.fail_at # 0

====
